---- MODULE Spec2Model ----
(***************************************************************************)
(* State machine of the job-description dashboard                          *)
(* (src/src/components/Dashboard.tsx): the working set of uploaded         *)
(* records, the sequential upload loop of handleFiles, the fan-out /       *)
(* wait-for-all / replace run of analyzeJobDescriptions, user deletion,    *)
(* export and the two-state view.                                          *)
(*                                                                         *)
(* Every action is one JavaScript turn: the synchronous code from an event *)
(* or a settled promise up to the next await.  The external calls          *)
(* (storage upload, extractFromUrl, generateText) answer nondeterministic- *)
(* ally and may never answer.                                              *)
(***************************************************************************)
EXTENDS Integers, Sequences, FiniteSets, TLC

----------------------------------------------------------------------------
(* Bounds of the model *)

\* most records the working set and the uploads in flight add up to; also the
\* longest file batch handed to handleFiles
MaxRecords == 2
\* last value of the millisecond clock
MaxClock == 1

----------------------------------------------------------------------------
(* Values *)

PDF == "application/pdf"
MSWORD == "application/msword"
DOCX == "application/vnd.openxmlformats-officedocument.wordprocessingml.document"
PNG == "image/png"

\* the files a user can pick or drop: two of allowed media types and an image
FileUniverse ==
    { [name |-> "a.pdf",  type |-> PDF,  size |-> 10],
      [name |-> "b.docx", type |-> DOCX, size |-> 20],
      [name |-> "c.png",  type |-> PNG,  size |-> 30] }

Batches == UNION { [1..n -> FileUniverse] : n \in 0..MaxRecords }

\* the value of an optional field that is not set
Undefined == "undefined"

\* texts the inference service can answer with: one JSON document, one not
GeneratedTexts == { "{\"title\":\"Engineer\"}", "Sorry, I cannot help" }

\* text the extraction service returns for a url
ExtractedText(url) == "text of " \o url

\* JSON.parse: the parsed value, or a thrown SyntaxError
JSONParse(text) ==
    IF text = "{\"title\":\"Engineer\"}"
    THEN [ok |-> TRUE, value |-> [title |-> "Engineer"]]
    ELSE [ok |-> FALSE, value |-> Undefined]

\* Date.now().toString()
NowString(t) == ToString(t)

\* new Date().toISOString()
ISOString(t) == "1970-01-01T00:00:00.00" \o ToString(t) \o "Z"

\* `job-descriptions/${Date.now()}-${file.name}`
UploadPath(t, file) == "job-descriptions/" \o ToString(t) \o "-" \o file.name

\* the publicUrl the storage service answers with for a path
PublicUrl(path) == "https://storage/" \o path

Toast(title, about) == [title |-> title, about |-> about]

----------------------------------------------------------------------------
(* Pure helpers of the handlers *)

\* a filter that lets every file through
IsValidFileAny(file) == TRUE

\* the predicate of the filter of handleFiles: the media-type allow-list
IsValidFile(file) ==
    \/ file.type = PDF
    \/ file.type = MSWORD
    \/ file.type = DOCX

\* a handleFiles that uploads its argument as it is
ValidFilesUnfiltered(files) == files

\* files.filter(...)
ValidFiles(files) == SelectSeq(files, IsValidFile)

\* the record handleFiles builds once an upload has succeeded
NewJobDescription(file, publicUrl, t) ==
    [ id               |-> NowString(t),
      filename         |-> file.name,
      fileUrl          |-> publicUrl,
      fileType         |-> file.type,
      fileSize         |-> file.size,
      status           |-> "uploaded",
      uploadedAt       |-> ISOString(t),
      analyzedAt       |-> Undefined,
      extractedContent |-> Undefined,
      analysisResults  |-> Undefined ]

\* setJobDescriptions(prev => [...prev, newJobDescription])
AppendRecord(prev, jd) == Append(prev, jd)

\* setJobDescriptions(prev => prev.filter(jd => jd.id !== id))
FilterOut(prev, id) == SelectSeq(prev, LAMBDA jd : jd.id # id)

\* setJobDescriptions(prev => prev.map(jd => ({ ...jd, status: 'processing' })))
MarkProcessing(prev) ==
    [i \in 1..Len(prev) |-> [prev[i] EXCEPT !.status = "processing"]]

\* a success value that stamps the record anew
AnalyzedRecordRestamped(jd, content, parsed, t) ==
    [jd EXCEPT !.status = "analyzed",
               !.uploadedAt = ISOString(t),
               !.analyzedAt = ISOString(t),
               !.extractedContent = content,
               !.analysisResults = parsed]

\* the value a task returns when extraction, inference and parse succeeded
AnalyzedRecord(jd, content, parsed, t) ==
    [jd EXCEPT !.status = "analyzed",
               !.analyzedAt = ISOString(t),
               !.extractedContent = content,
               !.analysisResults = parsed]

\* a catch block that puts the record back to 'uploaded' for another try
ErrorRecordReset(jd) == [jd EXCEPT !.status = "uploaded"]

\* the value a task returns from its catch block
ErrorRecord(jd) == [jd EXCEPT !.status = "error"]

\* a merge by id into the latest set instead of a replacement
MergeResultsById(prev, analyzedResults) ==
    [i \in 1..Len(prev) |->
        IF \E j \in 1..Len(analyzedResults) : analyzedResults[j].id = prev[i].id
        THEN LET j == CHOOSE j \in 1..Len(analyzedResults) :
                          analyzedResults[j].id = prev[i].id
             IN analyzedResults[j]
        ELSE prev[i]]

\* setJobDescriptions(analyzedResults)
MergeResults(prev, analyzedResults) == analyzedResults

\* analyzedResults.filter(r => r.status === 'analyzed').length
CountAnalyzed(records) ==
    Cardinality({i \in 1..Len(records) : records[i].status = "analyzed"})

RemoveAt(s, k) == [i \in 1..(Len(s) - 1) |-> IF i < k THEN s[i] ELSE s[i + 1]]

----------------------------------------------------------------------------
(* State *)

VARIABLES
    jobDescriptions,  \* useState<JobDescription[]>: the working set
    uploading,        \* useState(false)
    analyzing,        \* useState(false)
    currentView,      \* useState<'dashboard' | 'results'>
    now,              \* the millisecond clock read by Date.now() / new Date()
    uploads,          \* the handleFiles calls in flight, each awaiting one upload
    run,              \* the analyzeJobDescriptions call in flight, or NoRun
    lastOp,           \* the handler or continuation that ran in the last turn
    toasted,          \* the notifications that turn emitted
    finished,         \* the handleFiles call that returned in that turn, or NoBatch
    download          \* the artifact that turn offered for download, or Undefined

vars == <<jobDescriptions, uploading, analyzing, currentView, now, uploads, run,
          lastOp, toasted, finished, download>>

NoRun == [snapshot |-> <<>>, tasks |-> <<>>, active |-> FALSE]
\* a handleFiles call: its argument, the files that passed the filter, the
\* index of the file whose upload it awaits and that upload's path, and what
\* it has seen and said so far (the storage answers, the notifications)
NoBatch == [files |-> <<>>, valid |-> <<>>, i |-> 0, path |-> "",
            answers |-> <<>>, log |-> <<>>]

Init ==
    /\ jobDescriptions = <<>>
    /\ uploading = FALSE
    /\ analyzing = FALSE
    /\ currentView = "dashboard"
    /\ now = 0
    /\ uploads = <<>>
    /\ run = NoRun
    /\ lastOp = "mount"
    /\ toasted = <<>>
    /\ finished = NoBatch
    /\ download = Undefined

----------------------------------------------------------------------------
(* Scheduling *)

AllSettled == \A i \in 1..Len(run.tasks) : run.tasks[i].pc = "settled"

\* Promise.all has resolved and its continuation is queued as a microtask:
\* it runs before any event or network answer is handled
ContinuationQueued == run.active /\ AllSettled

\* uploads the calls in flight have not yet finished
PendingUploads(us) ==
    LET Left[k \in 0..Len(us)] ==
            IF k = 0 THEN 0 ELSE Left[k - 1] + (Len(us[k].valid) - us[k].i + 1)
    IN Left[Len(us)]

Occupied ==
    (IF Len(run.snapshot) > Len(jobDescriptions)
        THEN Len(run.snapshot) ELSE Len(jobDescriptions)) + PendingUploads(uploads)

----------------------------------------------------------------------------
(* handleFiles *)

\* handleFiles up to its first await: filter, reject the batch when nothing
\* is left, else setUploading(true) and start the first upload
HandleFiles(files) ==
    /\ currentView = "dashboard"
    /\ ~ContinuationQueued
    /\ LET validFiles == ValidFiles(files) IN
        IF Len(validFiles) = 0
        THEN /\ toasted' = <<Toast("Invalid file format", "")>>
             /\ finished' = [NoBatch EXCEPT !.files = files, !.log = toasted']
             /\ UNCHANGED <<uploading, uploads>>
        ELSE /\ Occupied + Len(validFiles) <= MaxRecords
             /\ uploading' = TRUE
             /\ uploads' = Append(uploads,
                    [files |-> files, valid |-> validFiles, i |-> 1,
                     path |-> UploadPath(now, validFiles[1]),
                     answers |-> <<>>, log |-> <<>>])
             /\ toasted' = <<>>
             /\ finished' = NoBatch
    /\ lastOp' = "handleFiles"
    /\ download' = Undefined
    /\ UNCHANGED <<jobDescriptions, analyzing, currentView, now, run>>

\* a loop whose try/catch is around the whole loop: the first failed upload
\* ends it
NextUploadStoppingOnFailure(k, batch) ==
    IF batch.i < Len(batch.valid) /\ batch.answers[Len(batch.answers)] = "resolved"
    THEN /\ uploads' = [uploads EXCEPT ![k] =
                [batch EXCEPT !.i = batch.i + 1,
                              !.path = UploadPath(now, batch.valid[batch.i + 1])]]
         /\ finished' = NoBatch
         /\ UNCHANGED uploading
    ELSE /\ uploads' = RemoveAt(uploads, k)
         /\ finished' = batch
         /\ uploading' = FALSE

\* the rest of the loop after file i of call k has been dealt with: start the
\* next upload, or leave the loop, setUploading(false) and return
NextUpload(k, batch) ==
    IF batch.i < Len(batch.valid)
    THEN /\ uploads' = [uploads EXCEPT ![k] =
                [batch EXCEPT !.i = batch.i + 1,
                              !.path = UploadPath(now, batch.valid[batch.i + 1])]]
         /\ finished' = NoBatch
         /\ UNCHANGED uploading
    ELSE /\ uploads' = RemoveAt(uploads, k)
         /\ finished' = batch
         /\ uploading' = FALSE

\* the awaited upload of call k succeeds: append the record, notify, go on
UploadResolves(k) ==
    /\ k \in 1..Len(uploads)
    /\ ~ContinuationQueued
    /\ LET batch == uploads[k]
           file == batch.valid[batch.i]
           newJobDescription == NewJobDescription(file, PublicUrl(batch.path), now)
           note == Toast("File uploaded successfully", file.name)
       IN /\ jobDescriptions' = AppendRecord(jobDescriptions, newJobDescription)
          /\ toasted' = <<note>>
          /\ NextUpload(k, [batch EXCEPT !.log = Append(batch.log, note),
                                         !.answers = Append(batch.answers, "resolved")])
    /\ lastOp' = "uploadResolved"
    /\ download' = Undefined
    /\ UNCHANGED <<analyzing, currentView, now, run>>

\* the awaited upload of call k fails: notify, add no record, go on
UploadRejects(k) ==
    /\ k \in 1..Len(uploads)
    /\ ~ContinuationQueued
    /\ LET batch == uploads[k]
           file == batch.valid[batch.i]
           note == Toast("Upload failed", file.name)
       IN /\ toasted' = <<note>>
          /\ NextUpload(k, [batch EXCEPT !.log = Append(batch.log, note),
                                         !.answers = Append(batch.answers, "rejected")])
    /\ lastOp' = "uploadRejected"
    /\ download' = Undefined
    /\ UNCHANGED <<jobDescriptions, analyzing, currentView, now, run>>

----------------------------------------------------------------------------
(* deleteJobDescription *)

DeleteJobDescription(id) ==
    /\ currentView = "dashboard"
    /\ ~ContinuationQueued
    /\ \E i \in 1..Len(jobDescriptions) : jobDescriptions[i].id = id
    /\ jobDescriptions' = FilterOut(jobDescriptions, id)
    /\ toasted' = <<Toast("File deleted", "")>>
    /\ lastOp' = "deleteJobDescription"
    /\ finished' = NoBatch
    /\ download' = Undefined
    /\ UNCHANGED <<uploading, analyzing, currentView, now, uploads, run>>

----------------------------------------------------------------------------
(* analyzeJobDescriptions *)

\* the task of one record, as launched by jobDescriptions.map(async jd => ...):
\* pc is the await it is suspended at; extraction and generation note what
\* the two services answered ("pending", "rejected", or the text)
NewTask ==
    [pc |-> "extract", content |-> Undefined, result |-> Undefined,
     extraction |-> "pending", generation |-> "pending"]

\* an analyzeJobDescriptions that shows the results page as soon as it starts
AnalyzeJobDescriptionsShowingResults ==
    /\ currentView = "dashboard"
    /\ ~analyzing
    /\ ~ContinuationQueued
    /\ IF Len(jobDescriptions) = 0
       THEN /\ toasted' = <<Toast("No files to analyze", "")>>
            /\ UNCHANGED <<jobDescriptions, analyzing, run, currentView>>
       ELSE /\ analyzing' = TRUE
            /\ jobDescriptions' = MarkProcessing(jobDescriptions)
            /\ run' = [snapshot |-> jobDescriptions,
                       tasks |-> [i \in 1..Len(jobDescriptions) |-> NewTask],
                       active |-> TRUE]
            /\ toasted' = <<>>
            /\ currentView' = "results"
    /\ lastOp' = "analyzeJobDescriptions"
    /\ finished' = NoBatch
    /\ download' = Undefined
    /\ UNCHANGED <<uploading, now, uploads>>

\* analyzeJobDescriptions up to its first await: refuse an empty set, else
\* setAnalyzing(true), mark every record processing and launch one task per
\* record of the set this render closed over
AnalyzeJobDescriptions ==
    /\ currentView = "dashboard"
    /\ ~analyzing
    /\ ~ContinuationQueued
    /\ IF Len(jobDescriptions) = 0
       THEN /\ toasted' = <<Toast("No files to analyze", "")>>
            /\ UNCHANGED <<jobDescriptions, analyzing, run>>
       ELSE /\ analyzing' = TRUE
            /\ jobDescriptions' = MarkProcessing(jobDescriptions)
            /\ run' = [snapshot |-> jobDescriptions,
                       tasks |-> [i \in 1..Len(jobDescriptions) |-> NewTask],
                       active |-> TRUE]
            /\ toasted' = <<>>
    /\ lastOp' = "analyzeJobDescriptions"
    /\ finished' = NoBatch
    /\ download' = Undefined
    /\ UNCHANGED <<uploading, currentView, now, uploads>>

\* a task that writes its outcome into the working set as soon as it has one
TaskTurnApplying(i, task, op) ==
    /\ run' = [run EXCEPT !.tasks[i] = task]
    /\ jobDescriptions' =
            [j \in 1..Len(jobDescriptions) |->
                IF task.pc = "settled" /\ jobDescriptions[j].id = task.result.id
                THEN task.result ELSE jobDescriptions[j]]
    /\ lastOp' = op
    /\ toasted' = <<>>
    /\ finished' = NoBatch
    /\ download' = Undefined
    /\ UNCHANGED <<uploading, analyzing, currentView, now, uploads>>

\* a turn of task i alone: nothing but the task changes
TaskTurn(i, task, op) ==
    /\ run' = [run EXCEPT !.tasks[i] = task]
    /\ lastOp' = op
    /\ toasted' = <<>>
    /\ finished' = NoBatch
    /\ download' = Undefined
    /\ UNCHANGED <<jobDescriptions, uploading, analyzing, currentView, now, uploads>>

\* a try block that stores the generated text without parsing it
AfterGenerationUnparsed(jd, task, text, t) ==
    [task EXCEPT !.pc = "settled", !.generation = text,
                 !.result = AnalyzedRecord(jd, task.content, text, t)]

\* the task's try block after generateText has answered with text
AfterGeneration(jd, task, text, t) ==
    LET parsed == JSONParse(text) IN
    IF parsed.ok
    THEN [task EXCEPT !.pc = "settled", !.generation = text,
                      !.result = AnalyzedRecord(jd, task.content, parsed.value, t)]
    ELSE [task EXCEPT !.pc = "settled", !.generation = text,
                      !.result = ErrorRecord(jd)]

\* the task's catch block
AfterFailure(jd, task, step) ==
    [task EXCEPT !.pc = "settled", ![step] = "rejected", !.result = ErrorRecord(jd)]

\* blink.data.extractFromUrl(jd.fileUrl) answers: go on to generateText
ExtractResolves(i) ==
    /\ run.active
    /\ i \in 1..Len(run.tasks)
    /\ run.tasks[i].pc = "extract"
    /\ TaskTurn(i, [run.tasks[i] EXCEPT
                        !.pc = "generate",
                        !.extraction = ExtractedText(run.snapshot[i].fileUrl),
                        !.content = ExtractedText(run.snapshot[i].fileUrl)],
                "extractResolved")

ExtractRejects(i) ==
    /\ run.active
    /\ i \in 1..Len(run.tasks)
    /\ run.tasks[i].pc = "extract"
    /\ TaskTurn(i, AfterFailure(run.snapshot[i], run.tasks[i], "extraction"),
                "extractRejected")

\* blink.ai.generateText answers with text: parse it and build the outcome
GenerateResolves(i, text) ==
    /\ run.active
    /\ i \in 1..Len(run.tasks)
    /\ run.tasks[i].pc = "generate"
    /\ TaskTurn(i, AfterGeneration(run.snapshot[i], run.tasks[i], text, now),
                "generateResolved")

GenerateRejects(i) ==
    /\ run.active
    /\ i \in 1..Len(run.tasks)
    /\ run.tasks[i].pc = "generate"
    /\ TaskTurn(i, AfterFailure(run.snapshot[i], run.tasks[i], "generation"),
                "generateRejected")

\* the values Promise.all resolves to
AnalyzedResults == [i \in 1..Len(run.tasks) |-> run.tasks[i].result]

\* a continuation without the finally block: analyzing is never cleared
CompleteAnalysisKeepingFlag ==
    /\ ContinuationQueued
    /\ jobDescriptions' = MergeResults(jobDescriptions, AnalyzedResults)
    /\ toasted' = <<Toast("Analysis complete", CountAnalyzed(AnalyzedResults))>>
    /\ currentView' = "results"
    /\ run' = NoRun
    /\ lastOp' = "analysisComplete"
    /\ finished' = NoBatch
    /\ download' = Undefined
    /\ UNCHANGED <<uploading, analyzing, now, uploads>>

\* the continuation of await Promise.all(analysisPromises): replace the
\* working set, notify, show the results page, and (finally) clear analyzing.
\* No task rejects (each catches its own failure), so the outer catch of
\* analyzeJobDescriptions never runs.
CompleteAnalysis ==
    /\ ContinuationQueued
    /\ jobDescriptions' = MergeResults(jobDescriptions, AnalyzedResults)
    /\ toasted' = <<Toast("Analysis complete", CountAnalyzed(AnalyzedResults))>>
    /\ currentView' = "results"
    /\ analyzing' = FALSE
    /\ run' = NoRun
    /\ lastOp' = "analysisComplete"
    /\ finished' = NoBatch
    /\ download' = Undefined
    /\ UNCHANGED <<uploading, now, uploads>>

----------------------------------------------------------------------------
(* downloadResults and the results page's back button *)

\* analyzedJobs.map(jd => ({filename, uploadedAt, analyzedAt, analysis}))
ResultsOf(records) ==
    LET analyzedJobs == SelectSeq(records, LAMBDA jd : jd.status = "analyzed") IN
    [i \in 1..Len(analyzedJobs) |->
        [filename   |-> analyzedJobs[i].filename,
         uploadedAt |-> analyzedJobs[i].uploadedAt,
         analyzedAt |-> analyzedJobs[i].analyzedAt,
         analysis   |-> analyzedJobs[i].analysisResults]]

DownloadResults ==
    /\ currentView = "dashboard"
    /\ ~ContinuationQueued
    /\ IF Len(ResultsOf(jobDescriptions)) = 0
       THEN /\ toasted' = <<Toast("No results to download", "")>>
            /\ download' = Undefined
       ELSE /\ toasted' = <<Toast("Results downloaded", "")>>
            /\ download' = ResultsOf(jobDescriptions)
    /\ lastOp' = "downloadResults"
    /\ finished' = NoBatch
    /\ UNCHANGED <<jobDescriptions, uploading, analyzing, currentView, now, uploads, run>>

\* onBack={() => setCurrentView('dashboard')}
Back ==
    /\ currentView = "results"
    /\ ~ContinuationQueued
    /\ currentView' = "dashboard"
    /\ lastOp' = "back"
    /\ toasted' = <<>>
    /\ finished' = NoBatch
    /\ download' = Undefined
    /\ UNCHANGED <<jobDescriptions, uploading, analyzing, now, uploads, run>>

----------------------------------------------------------------------------
(* The results page: the column schema and downloadJSON *)

\* the table columns, in their declared order
ColumnNames ==
    << "FileName",
       "Job Title / Position Name",
       "Reports To / Supervisor",
       "Company",
       "Grade",
       "Job Code",
       "FLSA Status",
       "Department",
       "Date Reviewed",
       "Job Summary / Scope of Position",
       "Position Summary of Major Accountabilities / Essential Functions",
       "Duties",
       "Duties - Weight",
       "Acquisition & Deployment",
       "Operational Management",
       "MARGINAL FUNCTIONS",
       "Supervision",
       "SUPERVISION - Received",
       "Minimum Experience / EDUCATION & EXPERIENCE:",
       "Requirements, Certifications and Licensure",
       "Patient Population Served",
       "Patient Population Served - Selection",
       "Carolina Org - Phy Req",
       "Carolina Org - Phy Req - Selection",
       "Carolina Org - Phy Demands",
       "Carolina Org - Phy Demands - Selection",
       "Carolina Org - Phy Env.Environment",
       "Carolina Org - Phy Env.Environment - Selection",
       "KNOWLEDGE, SKILLS & ABILITIES / Additonal Skills/Abilities",
       "Mental Demands",
       "Mental Demands - Frequency",
       "Physical Activity - Activity",
       "Physical Activity - Frequency",
       "Physical Demands.Activity",
       "Physical Demands.Frequency",
       "PHYSICAL REQUIREMENTS:",
       "Work Environment",
       "Working Environment.Activity",
       "Working Environment.Frequency" >>

\* new Date().toLocaleDateString(): the day the clock value falls on
LocaleDateString(t) == "1/" \o ToString(1 + (t \div 86400000)) \o "/1970"

\* the object literal tableData builds for one analyzed job: its members, in
\* the order they are written
TableRow(job, t) ==
    << <<"FileName", job.filename>>,
       <<"Job Title / Position Name", "Software Engineer">>,
       <<"Reports To / Supervisor", "Engineering Manager">>,
       <<"Company", "Tech Corporation">>,
       <<"Grade", "L3">>,
       <<"Job Code", "ENG-001">>,
       <<"FLSA Status", "Exempt">>,
       <<"Department", "Engineering">>,
       <<"Date Reviewed", LocaleDateString(t)>>,
       <<"Job Summary / Scope of Position", "Develop and maintain software applications">>,
       <<"Position Summary of Major Accountabilities / Essential Functions", "Write code, debug issues, collaborate with team">>,
       <<"Duties", "Code development, testing, documentation">>,
       <<"Duties - Weight", "80%">>,
       <<"Acquisition & Deployment", "Participate in CI/CD processes">>,
       <<"Operational Management", "Monitor system performance">>,
       <<"MARGINAL FUNCTIONS", "Attend meetings, training">>,
       <<"Supervision", "None">>,
       <<"SUPERVISION - Received", "Direct supervision">>,
       <<"Minimum Experience / EDUCATION & EXPERIENCE:", "Bachelor's degree, 3+ years">>,
       <<"Requirements, Certifications and Licensure", "None required">>,
       <<"Patient Population Served", "N/A">>,
       <<"Patient Population Served - Selection", "N/A">>,
       <<"Carolina Org - Phy Req", "N/A">>,
       <<"Carolina Org - Phy Req - Selection", "N/A">>,
       <<"Carolina Org - Phy Demands", "Sitting, typing">>,
       <<"Carolina Org - Phy Demands - Selection", "Frequent">>,
       <<"Carolina Org - Phy Env.Environment", "Office environment">>,
       <<"Carolina Org - Phy Env.Environment - Selection", "Indoor">>,
       <<"KNOWLEDGE, SKILLS & ABILITIES / Additonal Skills/Abilities", "Programming, problem-solving">>,
       <<"Mental Demands", "High concentration required">>,
       <<"Mental Demands - Frequency", "Constant">>,
       <<"Physical Activity - Activity", "Sitting, typing">>,
       <<"Physical Activity - Frequency", "Continuous">>,
       <<"Physical Demands.Activity", "Light physical activity">>,
       <<"Physical Demands.Frequency", "Occasional">>,
       <<"PHYSICAL REQUIREMENTS:", "Able to sit for extended periods">>,
       <<"Work Environment", "Office setting">>,
       <<"Working Environment.Activity", "Computer work">>,
       <<"Working Environment.Frequency", "Daily">> >>

\* a filter that keeps every job
AllJobs(records) == records

\* jobDescriptions.filter(jd => jd.status === 'analyzed')
AnalyzedJobs(records) == SelectSeq(records, LAMBDA jd : jd.status = "analyzed")

\* analyzedJobs.map(job => ({...}))
TableData(records, t) ==
    LET analyzedJobs == AnalyzedJobs(records) IN
    [r \in 1..Len(analyzedJobs) |-> TableRow(analyzedJobs[r], t)]

\* JSON.stringify of an array of objects: per object its members in order,
\* leaving out a member whose value is undefined
JSONStringify(rows) ==
    [r \in 1..Len(rows) |-> SelectSeq(rows[r], LAMBDA m : m[2] # Undefined)]

\* downloadJSON: nothing when the table is empty, else the table as JSON
DownloadJSON ==
    /\ currentView = "results"
    /\ ~ContinuationQueued
    /\ LET tableData == TableData(jobDescriptions, now) IN
        IF Len(tableData) = 0
        THEN download' = Undefined
        ELSE download' = JSONStringify(tableData)
    /\ lastOp' = "downloadJSON"
    /\ toasted' = <<>>
    /\ finished' = NoBatch
    /\ UNCHANGED <<jobDescriptions, uploading, analyzing, currentView, now, uploads, run>>

----------------------------------------------------------------------------
(* The clock *)

Tick ==
    /\ now < MaxClock
    /\ ~ContinuationQueued
    /\ now' = now + 1
    /\ lastOp' = "tick"
    /\ toasted' = <<>>
    /\ finished' = NoBatch
    /\ download' = Undefined
    /\ UNCHANGED <<jobDescriptions, uploading, analyzing, currentView, uploads, run>>

Next ==
    \/ \E files \in Batches : HandleFiles(files)
    \/ \E k \in 1..MaxRecords : UploadResolves(k)
    \/ \E k \in 1..MaxRecords : UploadRejects(k)
    \/ \E id \in {NowString(t) : t \in 0..MaxClock} : DeleteJobDescription(id)
    \/ AnalyzeJobDescriptions
    \/ \E i \in 1..MaxRecords : ExtractResolves(i)
    \/ \E i \in 1..MaxRecords : ExtractRejects(i)
    \/ \E i \in 1..MaxRecords, text \in GeneratedTexts : GenerateResolves(i, text)
    \/ \E i \in 1..MaxRecords : GenerateRejects(i)
    \/ CompleteAnalysis
    \/ DownloadResults
    \/ DownloadJSON
    \/ Back
    \/ Tick

Spec == Init /\ [][Next]_vars

\* the continuation of a resolved Promise.all is a queued microtask: the event
\* loop runs it; nothing makes an external call answer
LiveSpec == Spec /\ WF_vars(CompleteAnalysis)

----------------------------------------------------------------------------
(* Properties of an analysis run *)

FinalStatuses == {"analyzed", "error"}

\* C1: when an analysis run completes and its merge is applied, the working
\* set is not empty and every record in it has status 'analyzed' or 'error'
C1_RunLeavesOnlyFinalStatuses ==
    lastOp = "analysisComplete" =>
        /\ Len(jobDescriptions) > 0
        /\ \A i \in 1..Len(jobDescriptions) :
                jobDescriptions[i].status \in FinalStatuses

\* a run has just been merged, its record failed, and an upload is in flight
\* across the merge
C1_Witness ==
    /\ lastOp = "analysisComplete"
    /\ Len(jobDescriptions) = 1
    /\ jobDescriptions[1].status = "error"
    /\ Len(uploads) > 0

\* C2: a record whose status is 'uploaded' or 'error' has neither analyzedAt
\* nor analysisResults populated
C2_OptionalFieldsOnlyWhenAnalyzed ==
    \A i \in 1..Len(jobDescriptions) :
        jobDescriptions[i].status \in {"uploaded", "error"} =>
            /\ jobDescriptions[i].analyzedAt = Undefined
            /\ jobDescriptions[i].analysisResults = Undefined

\* what tells one record from another across a step
Key(jd) == <<jd.id, jd.filename, jd.fileUrl>>

Keys(records) == {Key(records[i]) : i \in 1..Len(records)}

\* C3: a record leaves the working set only in a deleteJobDescription step
C3_OnlyDeletionRemoves ==
    [][(\E i \in 1..Len(jobDescriptions) :
            Key(jobDescriptions[i]) \notin Keys(jobDescriptions'))
        => lastOp' = "deleteJobDescription"]_vars

EveryTaskSettled(r) == \A i \in 1..Len(r.tasks) : r.tasks[i].pc = "settled"

\* C4: from the start of a run to its merge no record is 'analyzed' or
\* 'error': the records are marked 'processing' at the start, the only changes
\* to the working set during the run are a user's deletion and an upload's
\* append of an 'uploaded' record, and the run ends in one step, taken when
\* every task has settled, that replaces the working set by the outcomes
C4_NoPartialApplication ==
    [][/\ run'.active =>
            \A i \in 1..Len(jobDescriptions') :
                jobDescriptions'[i].status \in {"processing", "uploaded"}
       /\ (~run.active /\ run'.active) =>
            \A i \in 1..Len(jobDescriptions') :
                jobDescriptions'[i].status = "processing"
       /\ (run.active /\ run'.active) =>
            \/ jobDescriptions' = jobDescriptions
            \/ \E id \in {jobDescriptions[i].id : i \in 1..Len(jobDescriptions)} :
                    jobDescriptions' =
                        SelectSeq(jobDescriptions, LAMBDA jd : jd.id # id)
            \/ /\ Len(jobDescriptions') = Len(jobDescriptions) + 1
               /\ SubSeq(jobDescriptions', 1, Len(jobDescriptions)) = jobDescriptions
               /\ jobDescriptions'[Len(jobDescriptions')].status = "uploaded"
       /\ (run.active /\ ~run'.active) =>
            /\ EveryTaskSettled(run)
            /\ jobDescriptions' = [i \in 1..Len(run.tasks) |-> run.tasks[i].result]
      ]_vars

\* the first task of a run of two has its outcome, the second is in flight,
\* and both records still show 'processing'
C4_Witness ==
    /\ run.active
    /\ Len(run.tasks) = 2
    /\ run.tasks[1].pc = "settled"
    /\ run.tasks[1].result.status = "analyzed"
    /\ run.tasks[2].pc # "settled"
    /\ Len(jobDescriptions) = 2
    /\ \A i \in 1..2 : jobDescriptions[i].status = "processing"

\* a text JSON.parse accepts
IsJSON(text) == text = "{\"title\":\"Engineer\"}"

\* extraction answered, generation answered, and the answer is JSON
Succeeded(task) ==
    /\ task.extraction \notin {"pending", "rejected"}
    /\ task.generation \notin {"pending", "rejected"}
    /\ IsJSON(task.generation)

\* C5: a settled task's outcome is 'analyzed' exactly when its own
\* extraction, generation and parse succeeded and 'error' otherwise; a turn
\* of one task changes no other task and does not end the run while a task is
\* in flight; and the merge gives record i the outcome of task i
C5_OutcomePerTask ==
    [][/\ run'.active =>
            \A i \in 1..Len(run'.tasks) :
                run'.tasks[i].pc = "settled" =>
                    run'.tasks[i].result.status =
                        IF Succeeded(run'.tasks[i]) THEN "analyzed" ELSE "error"
       /\ (run.active /\ run'.active) =>
            /\ run'.snapshot = run.snapshot
            /\ \A i, j \in 1..Len(run.tasks) :
                    (i # j /\ run'.tasks[i] # run.tasks[i]) =>
                        run'.tasks[j] = run.tasks[j]
       /\ (run.active /\ ~EveryTaskSettled(run)) => run'.active
       /\ (run.active /\ ~run'.active) =>
            /\ Len(jobDescriptions') = Len(run.tasks)
            /\ \A i \in 1..Len(run.tasks) :
                    /\ jobDescriptions'[i].id = run.snapshot[i].id
                    /\ jobDescriptions'[i].status =
                        IF Succeeded(run.tasks[i]) THEN "analyzed" ELSE "error"
      ]_vars

\* a run of two has settled: the first task got malformed output and failed,
\* the second succeeded
C5_Witness ==
    /\ run.active
    /\ Len(run.tasks) = 2
    /\ EveryTaskSettled(run)
    /\ run.tasks[1].generation = "Sorry, I cannot help"
    /\ run.tasks[1].result.status = "error"
    /\ run.tasks[2].result.status = "analyzed"

----------------------------------------------------------------------------
(* Properties of handleFiles *)

AllowedTypes == {PDF, MSWORD, DOCX}

Allowed(files) == SelectSeq(files, LAMBDA f : f.type \in AllowedTypes)

\* the step is a handleFiles call that returned at once with the rejection
Rejected == lastOp' = "handleFiles" /\ finished' # NoBatch

\* the step is a handleFiles call that went on to upload
Accepted == lastOp' = "handleFiles" /\ finished' = NoBatch

\* C6: every record and every upload in flight is of a file whose media type
\* is in the allow-list; a handleFiles call is rejected exactly when none of
\* its files is allowed, and a rejected call creates no record, starts no
\* upload and emits exactly one notification
C6_OnlyAllowedFilesBecomeRecords ==
    [][/\ \A i \in 1..Len(jobDescriptions') :
            jobDescriptions'[i].fileType \in AllowedTypes
       /\ \A k \in 1..Len(uploads') :
            /\ uploads'[k].valid = Allowed(uploads'[k].files)
            /\ uploads'[k].valid # <<>>
       /\ Rejected =>
            /\ Allowed(finished'.files) = <<>>
            /\ jobDescriptions' = jobDescriptions
            /\ uploads' = uploads
            /\ uploading' = uploading
            /\ Len(toasted') = 1
            /\ toasted'[1].title = "Invalid file format"
       /\ Accepted =>
            /\ Len(uploads') = Len(uploads) + 1
            /\ jobDescriptions' = jobDescriptions
      ]_vars

\* a batch of two images has just been rejected with one notification while
\* the working set holds a record
C6_Witness ==
    /\ lastOp = "handleFiles"
    /\ Len(finished.files) = 2
    /\ \A i \in 1..2 : finished.files[i].type = PNG
    /\ Len(toasted) = 1
    /\ Len(jobDescriptions) = 1

PdfFile == [name |-> "a.pdf", type |-> PDF, size |-> 10]
PngFile == [name |-> "c.png", type |-> PNG, size |-> 30]

\* one allowed PDF and one disallowed image, in either order
MixedBatches == {<<PdfFile, PngFile>>, <<PngFile, PdfFile>>}

RejectionNotices(log) ==
    Cardinality({n \in 1..Len(log) : log[n].title = "Invalid file format"})

\* the step is the return of a handleFiles call on a mixed batch whose PDF
\* upload succeeded
MixedBatchDone ==
    /\ finished'.files \in MixedBatches
    /\ lastOp' = "uploadResolved"

\* the step is a handleFiles call on a mixed batch
MixedBatchStarts ==
    /\ Accepted
    /\ Len(uploads') = Len(uploads) + 1
    /\ uploads'[Len(uploads')].files \in MixedBatches

\* C7 as claimed: a batch of one PDF and one image creates exactly one record,
\* emits one rejection notice, and the PDF's upload proceeds
C7_MixedBatchOneRejectionNotice ==
    [][MixedBatchDone =>
            /\ Len(jobDescriptions') = Len(jobDescriptions) + 1
            /\ finished'.answers = <<"resolved">>
            /\ RejectionNotices(finished'.log) = 1
      ]_vars

\* C7 as amended: a batch of one PDF and one image starts the upload of the
\* PDF alone and emits no notification then; when that upload succeeds exactly
\* one record, the PDF's, is appended and the only notification of the whole
\* call is the PDF's upload-success notice: no rejection notice is emitted
C7_MixedBatchSilentFilter ==
    [][/\ MixedBatchStarts =>
            /\ uploads'[Len(uploads')].valid = <<PdfFile>>
            /\ uploads'[Len(uploads')].i = 1
            /\ uploading'
            /\ toasted' = <<>>
       /\ MixedBatchDone =>
            /\ Len(jobDescriptions') = Len(jobDescriptions) + 1
            /\ jobDescriptions'[Len(jobDescriptions')].filename = "a.pdf"
            /\ jobDescriptions'[Len(jobDescriptions')].fileType = PDF
            /\ finished'.answers = <<"resolved">>
            /\ RejectionNotices(finished'.log) = 0
            /\ finished'.log = <<Toast("File uploaded successfully", "a.pdf")>>
            /\ toasted' = finished'.log
      ]_vars

\* a handleFiles call on <<image, PDF>> has returned after the PDF's upload
\* succeeded
C7_Witness ==
    /\ finished.files = <<PngFile, PdfFile>>
    /\ finished.answers = <<"resolved">>
    /\ lastOp = "uploadResolved"
    /\ Len(jobDescriptions) > 0

\* the step settles the upload call k awaits, with the given answer: the call
\* goes on to its next file if it has one and returns otherwise
CallGoesOn(k, answer) ==
    LET batch == uploads[k] IN
    IF batch.i < Len(batch.valid)
    THEN /\ Len(uploads') = Len(uploads)
         /\ uploads'[k].valid = batch.valid
         /\ uploads'[k].i = batch.i + 1
         /\ uploads'[k].answers = Append(batch.answers, answer)
         /\ finished' = NoBatch
    ELSE /\ Len(uploads') = Len(uploads) - 1
         /\ finished'.valid = batch.valid
         /\ finished'.answers = Append(batch.answers, answer)

\* C8: a handleFiles call awaits one upload at a time, in the order of its
\* accepted files, each started only after all earlier ones have settled; a
\* successful upload appends exactly one 'uploaded' record for its file; a
\* failed one leaves the working set as it is and emits an error
\* notification; after either the call goes on with its next file, so a call
\* returns only when every accepted file has been uploaded or has failed
C8_SequentialIsolatedUploads ==
    [][/\ \A k \in 1..Len(uploads') :
            /\ uploads'[k].i \in 1..Len(uploads'[k].valid)
            /\ Len(uploads'[k].answers) = uploads'[k].i - 1
       /\ lastOp' = "uploadResolved" =>
            \E k \in 1..Len(uploads) :
                LET file == uploads[k].valid[uploads[k].i]
                    last == jobDescriptions'[Len(jobDescriptions')]
                IN /\ Len(jobDescriptions') = Len(jobDescriptions) + 1
                   /\ SubSeq(jobDescriptions', 1, Len(jobDescriptions)) = jobDescriptions
                   /\ last.status = "uploaded"
                   /\ last.filename = file.name
                   /\ toasted' = <<Toast("File uploaded successfully", file.name)>>
                   /\ CallGoesOn(k, "resolved")
       /\ lastOp' = "uploadRejected" =>
            \E k \in 1..Len(uploads) :
                LET file == uploads[k].valid[uploads[k].i]
                IN /\ jobDescriptions' = jobDescriptions
                   /\ toasted' = <<Toast("Upload failed", file.name)>>
                   /\ CallGoesOn(k, "rejected")
       /\ finished'.valid # <<>> =>
            Len(finished'.answers) = Len(finished'.valid)
      ]_vars

\* a call on two accepted files has returned: the first upload failed, the
\* second succeeded
C8_Witness ==
    /\ Len(finished.valid) = 2
    /\ finished.answers = <<"rejected", "resolved">>
    /\ lastOp = "uploadResolved"
    /\ Len(jobDescriptions) = 1
    /\ jobDescriptions[1].filename = finished.valid[2].name

----------------------------------------------------------------------------
(* Properties of the view and of the end of a run *)

\* C9: the view changes only in two ways: to 'results' in the step that
\* completes an analysis run all of whose tasks have settled, and that step
\* always shows 'results'; and back to 'dashboard' in the back step
C9_ViewChangesOnlyByRunEndAndBack ==
    [][/\ currentView' # currentView =>
            \/ /\ currentView' = "results"
               /\ lastOp' = "analysisComplete"
               /\ run.active
               /\ EveryTaskSettled(run)
               /\ ~run'.active
            \/ /\ currentView' = "dashboard"
               /\ lastOp' = "back"
       /\ lastOp' = "analysisComplete" => currentView' = "results"
      ]_vars

\* the results page was shown after a run and the user has gone back to the
\* listing, which holds an analyzed record
C9_Witness ==
    /\ lastOp = "back"
    /\ currentView = "dashboard"
    /\ Len(jobDescriptions) > 0
    /\ jobDescriptions[1].status = "analyzed"

\* C10: once every task of a run has settled the run concludes: the merge
\* is applied, analyzing is cleared and the view is 'results'; and a run
\* concludes in no other way: while a task is in flight the run stays in
\* flight, analyzing stays set and the view stays 'dashboard'
C10_RunConcludesIffAllSettle ==
    /\ (run.active /\ EveryTaskSettled(run)) ~>
            (/\ lastOp = "analysisComplete"
             /\ ~run.active
             /\ ~analyzing
             /\ currentView = "results")
    /\ [](run.active => (analyzing /\ currentView = "dashboard"))
    /\ [](analyzing => run.active)
    /\ [][(run.active /\ ~EveryTaskSettled(run)) => run'.active]_vars
    /\ [][(run.active /\ ~run'.active) =>
            /\ lastOp' = "analysisComplete"
            /\ jobDescriptions' = [i \in 1..Len(run.tasks) |-> run.tasks[i].result]
            /\ ~analyzing'
            /\ currentView' = "results"]_vars

\* a run of two tasks has concluded
C10_Witness ==
    /\ lastOp = "analysisComplete"
    /\ Len(jobDescriptions) = 2
    /\ ~analyzing
    /\ ~run.active
    /\ currentView = "results"

----------------------------------------------------------------------------
(* Properties of a record's life *)

\* the place of a status in uploaded -> processing -> {analyzed | error}
Rank(status) ==
    CASE status = "uploaded"   -> 0
      [] status = "processing" -> 1
      [] status \in FinalStatuses -> 2

\* the step keeps the same records at the same places
SameRecords ==
    /\ Len(jobDescriptions') = Len(jobDescriptions)
    /\ \A i \in 1..Len(jobDescriptions) :
            Key(jobDescriptions'[i]) = Key(jobDescriptions[i])

\* C11 as claimed: no step moves a record's status backward along
\* uploaded -> processing -> {analyzed | error}
C11_StatusOnlyForward ==
    [][SameRecords =>
            \A i \in 1..Len(jobDescriptions) :
                Rank(jobDescriptions'[i].status) >= Rank(jobDescriptions[i].status)
      ]_vars

\* C11 as amended: the working set changes in five ways only: an upload
\* appends an 'uploaded' record, a deletion removes records, the start of an
\* analysis run sets the status of every record, whatever it was ('analyzed'
\* and 'error' included), to 'processing' and changes nothing else, and the
\* merge of a run leaves only 'analyzed' and 'error' records; so a status
\* goes back to 'processing' only at the start of a new run and no status
\* ever goes back to 'uploaded'
C11_StatusMoves ==
    [][\/ jobDescriptions' = jobDescriptions
       \/ /\ lastOp' = "uploadResolved"
          /\ Len(jobDescriptions') = Len(jobDescriptions) + 1
          /\ SubSeq(jobDescriptions', 1, Len(jobDescriptions)) = jobDescriptions
          /\ jobDescriptions'[Len(jobDescriptions')].status = "uploaded"
       \/ /\ lastOp' = "deleteJobDescription"
          /\ \E id \in {jobDescriptions[i].id : i \in 1..Len(jobDescriptions)} :
                jobDescriptions' = SelectSeq(jobDescriptions, LAMBDA jd : jd.id # id)
       \/ /\ lastOp' = "analyzeJobDescriptions"
          /\ ~run.active
          /\ Len(jobDescriptions') = Len(jobDescriptions)
          /\ \A i \in 1..Len(jobDescriptions) :
                jobDescriptions'[i] =
                    [jobDescriptions[i] EXCEPT !.status = "processing"]
       \/ /\ lastOp' = "analysisComplete"
          /\ \A i \in 1..Len(jobDescriptions') :
                jobDescriptions'[i].status \in FinalStatuses
      ]_vars

\* a second run has just started over a record the first run analyzed: the
\* record is 'processing' again
C11_Witness ==
    /\ lastOp = "analyzeJobDescriptions"
    /\ run.active
    /\ Len(jobDescriptions) > 0
    /\ jobDescriptions[1].status = "processing"
    /\ jobDescriptions[1].analyzedAt # Undefined

\* the fields of a record that are set at upload
UploadFields(jd) ==
    <<jd.id, jd.filename, jd.fileUrl, jd.fileType, jd.fileSize, jd.uploadedAt>>

\* C12: an analysis run works on the records the working set holds when it
\* starts and leaves their id, filename, fileUrl, fileType, fileSize and
\* uploadedAt as they are: marking them 'processing' keeps these fields, the
\* run's records keep them while it is in flight, each task's extraction is
\* the text of the fileUrl its record had at the start, and record i of the
\* merged set has these fields of record i of the set at the start
C12_RunKeepsUploadFields ==
    [][/\ (~run.active /\ run'.active) =>
            /\ Len(run'.snapshot) = Len(jobDescriptions)
            /\ Len(jobDescriptions') = Len(jobDescriptions)
            /\ \A i \in 1..Len(jobDescriptions) :
                    /\ UploadFields(run'.snapshot[i]) = UploadFields(jobDescriptions[i])
                    /\ UploadFields(jobDescriptions'[i]) = UploadFields(jobDescriptions[i])
       /\ (run.active /\ run'.active) =>
            /\ Len(run'.snapshot) = Len(run.snapshot)
            /\ \A i \in 1..Len(run.snapshot) :
                    /\ UploadFields(run'.snapshot[i]) = UploadFields(run.snapshot[i])
                    /\ run'.tasks[i].extraction \in
                            {"pending", "rejected", ExtractedText(run.snapshot[i].fileUrl)}
       /\ (run.active /\ ~run'.active) =>
            /\ Len(jobDescriptions') = Len(run.snapshot)
            /\ \A i \in 1..Len(run.snapshot) :
                    /\ UploadFields(jobDescriptions'[i]) = UploadFields(run.snapshot[i])
                    /\ jobDescriptions'[i].status = "analyzed" =>
                            jobDescriptions'[i].extractedContent =
                                ExtractedText(run.snapshot[i].fileUrl)
      ]_vars

\* a run of two records has been merged; the first was analyzed at a later
\* clock value than it was uploaded at
C12_Witness ==
    /\ lastOp = "analysisComplete"
    /\ Len(jobDescriptions) = 2
    /\ jobDescriptions[1].status = "analyzed"
    /\ jobDescriptions[1].analyzedAt # jobDescriptions[1].uploadedAt
    /\ jobDescriptions[1].fileUrl # jobDescriptions[2].fileUrl

----------------------------------------------------------------------------
(* Properties of the JSON export *)

\* JSON.parse of an exported array: per object the value of each key, the
\* last member of a key winning
ParseExport(text) ==
    [r \in 1..Len(text) |->
        [k \in {text[r][n][1] : n \in 1..Len(text[r])} |->
            LET last == CHOOSE n \in 1..Len(text[r]) :
                            /\ text[r][n][1] = k
                            /\ \A o \in 1..Len(text[r]) : text[r][o][1] = k => o <= n
            IN text[r][last][2]]]

DeclaredColumns == {ColumnNames[c] : c \in 1..Len(ColumnNames)}

\* the filenames of the analyzed records, in working-set order
AnalyzedFilenames ==
    LET analyzed == SelectSeq(jobDescriptions, LAMBDA jd : jd.status = "analyzed")
    IN [r \in 1..Len(analyzed) |-> analyzed[r].filename]

\* a downloadJSON call has just produced an artifact
Exported == lastOp = "downloadJSON" /\ Len(AnalyzedFilenames) > 0

\* the parsed export has one object per analyzed record, in working-set
\* order, each with every declared column as a key
OneObjectPerAnalyzedRecord ==
    LET objects == ParseExport(download) IN
    /\ Len(objects) = Len(AnalyzedFilenames)
    /\ \A r \in 1..Len(objects) :
            /\ DOMAIN objects[r] = DeclaredColumns
            /\ objects[r]["FileName"] = AnalyzedFilenames[r]

\* C13 as claimed: the JSON export has one object per analyzed record, in
\* working-set order, and each has all 38 declared column keys
C13_ExportHas38Keys ==
    Exported =>
        /\ OneObjectPerAnalyzedRecord
        /\ Cardinality(DeclaredColumns) = 38
        /\ \A r \in 1..Len(download) : Len(download[r]) = 38

\* C13 as amended: the JSON export has one object per analyzed record, in
\* working-set order, and each has all 39 declared column keys
C13_ExportHas39Keys ==
    Exported =>
        /\ OneObjectPerAnalyzedRecord
        /\ Len(ColumnNames) = 39
        /\ Cardinality(DeclaredColumns) = 39
        /\ \A r \in 1..Len(download) : Len(download[r]) = 39

\* the export of a working set that holds an analyzed and a failed record
C13_Witness ==
    /\ Exported
    /\ Len(jobDescriptions) = 2
    /\ jobDescriptions[1].status = "error"
    /\ jobDescriptions[2].status = "analyzed"
    /\ Len(download) = 1

----------------------------------------------------------------------------
(* Properties of record ids *)

Ids(records) == {records[i].id : i \in 1..Len(records)}

\* C14 as claimed: a record whose id is not in the working set enters it only
\* as a new upload; in particular the merge of a run puts no deleted record
\* back
C14_DeletedStaysDeleted ==
    [][Ids(jobDescriptions') \subseteq Ids(jobDescriptions)
        \/ lastOp' = "uploadResolved"]_vars

\* C15 as claimed: the ids of the working set are pairwise different, so
\* deleting by id removes exactly one record
C15_IdsUnique ==
    /\ \A i, j \in 1..Len(jobDescriptions) :
            i # j => jobDescriptions[i].id # jobDescriptions[j].id
    /\ \A id \in Ids(jobDescriptions) :
            Len(FilterOut(jobDescriptions, id)) = Len(jobDescriptions) - 1
====
